---- MODULE Spec2Model ----
(***************************************************************************)
(* CNC Machinist Mate: the three G-code generators (circular pocket,       *)
(* thread milling, peck drilling) as a state machine.                      *)
(*                                                                         *)
(* Numbers.  The generators compute with JavaScript numbers, and their     *)
(* loops accumulate sums (currentDepth + depthPerPass, currentRadius +     *)
(* stepover, currentThreadZ + zMove) whose rounding decides how often a    *)
(* loop runs.  The model therefore computes with IEEE-754 doubles: every   *)
(* operation below returns the correctly rounded result.                   *)
(*                                                                         *)
(* Program text.  The string gcode is modelled as the sequence of its      *)
(* lines; a line is a record of its G/M words (codes), its address words   *)
(* (args: letter, literal sign, rendering and the rendered value) and its  *)
(* comment.                                                                *)
(***************************************************************************)
EXTENDS Integers, Sequences, FiniteSets, TLC

\* ----------------------------------------------------------------- bounds
MaxCutterHalves == 2
MaxCircleHalves == 6
MaxStepoverTenths == 2
MaxDepthPasses == 3

\* ------------------------------------------------ IEEE-754 double arithmetic
\* A JavaScript number is modelled exactly.  Every double that occurs here
\* (inputs with four decimals, their sums, differences, small multiples and
\* quotients) is a multiple of 2^-80 below 2^32, so its magnitude is stored as the
\* integer |x| * 2^80 in NLimbs little-endian limbs of LimbBits bits, and
\* every operation rounds its exact result to 53 significant bits, ties to
\* even, as the hardware does.
LimbBits == 16
NLimbs == 7
FracLimbs == 5
MantissaBits == 53
Base == 2 ^ LimbBits

Limbs == 1..NLimbs

BigZero == [i \in Limbs |-> 0]

\* The limbs i.. of a + b with carry c into limb i.
RECURSIVE AddFrom(_, _, _, _)
AddFrom(a, b, i, c) ==
    IF i > NLimbs THEN <<>>
    ELSE LET s == a[i] + b[i] + c
         IN <<s % Base>> \o AddFrom(a, b, i + 1, s \div Base)

BigAdd(a, b) == CHOOSE res \in {AddFrom(x, y, 1, 0) : x \in {a}, y \in {b}} : TRUE

\* The limbs i.. of a - b with borrow br out of limb i.
RECURSIVE SubFrom(_, _, _, _)
SubFrom(a, b, i, br) ==
    IF i > NLimbs THEN <<>>
    ELSE LET s == a[i] - b[i] - br
         IN <<s % Base>> \o SubFrom(a, b, i + 1, IF s < 0 THEN 1 ELSE 0)

\* a - b for a >= b
BigSub(a, b) == CHOOSE res \in {SubFrom(x, y, 1, 0) : x \in {a}, y \in {b}} : TRUE

RECURSIVE LessFrom(_, _, _)
LessFrom(a, b, i) ==
    IF i = 0 THEN FALSE
    ELSE IF a[i] # b[i] THEN a[i] < b[i]
    ELSE LessFrom(a, b, i - 1)

BigLess(a, b) == \E x \in {a}, y \in {b} : LessFrom(x, y, NLimbs)

RECURSIVE MulFrom(_, _, _, _)
MulFrom(a, k, i, c) ==
    IF i > NLimbs THEN <<>>
    ELSE LET s == a[i] * k + c
         IN <<s % Base>> \o MulFrom(a, k, i + 1, s \div Base)

\* a * k for a small integer k
BigMulSmall(a, k) == CHOOSE res \in {MulFrom(x, k, 1, 0) : x \in {a}} : TRUE

\* Long division of the limbs i..1 of a by k with the remainder r carried in.
RECURSIVE DivFrom(_, _, _, _)
DivFrom(a, k, i, r) ==
    IF i = 0 THEN [q |-> <<>>, r |-> r]
    ELSE CHOOSE res \in {[q |-> Append(rest.q, (r * Base + a[i]) \div k), r |-> rest.r] :
                            rest \in {DivFrom(a, k, i - 1, (r * Base + a[i]) % k)}} : TRUE

\* floor(a / k) and a mod k for a small integer k
BigDivSmall(a, k) == CHOOSE res \in {DivFrom(x, k, NLimbs, 0) : x \in {a}} : TRUE

\* number of significant bits of one limb
LimbLen(x) ==
    IF x >= 256
    THEN (IF x >= 4096 THEN (IF x >= 16384 THEN (IF x >= 32768 THEN 16 ELSE 15)
                                            ELSE (IF x >= 8192 THEN 14 ELSE 13))
                       ELSE (IF x >= 1024 THEN (IF x >= 2048 THEN 12 ELSE 11)
                                          ELSE (IF x >= 512 THEN 10 ELSE 9)))
    ELSE (IF x >= 16 THEN (IF x >= 64 THEN (IF x >= 128 THEN 8 ELSE 7)
                                      ELSE (IF x >= 32 THEN 6 ELSE 5))
                     ELSE (IF x >= 4 THEN (IF x >= 8 THEN 4 ELSE 3)
                                     ELSE (IF x >= 2 THEN 2 ELSE (IF x >= 1 THEN 1 ELSE 0))))

\* number of significant bits of a
RECURSIVE BitLenFrom(_, _)
BitLenFrom(a, i) ==
    IF i = 0 THEN 0
    ELSE IF a[i] # 0 THEN LimbBits * (i - 1) + LimbLen(a[i])
    ELSE BitLenFrom(a, i - 1)

BitLen(a) == CHOOSE res \in {BitLenFrom(x, NLimbs) : x \in {a}} : TRUE

\* 2^p
BigPow2(p) ==
    [i \in Limbs |-> IF LimbBits * (i - 1) <= p /\ p < LimbBits * i
                     THEN 2 ^ (p - LimbBits * (i - 1)) ELSE 0]

\* a with its p low bits cleared
RECURSIVE TruncFrom(_, _, _)
TruncFrom(a, p, i) ==
    IF i > NLimbs THEN <<>>
    ELSE <<IF LimbBits * i <= p THEN 0
           ELSE IF LimbBits * (i - 1) >= p THEN a[i]
           ELSE a[i] - (a[i] % (2 ^ (p - LimbBits * (i - 1))))>> \o TruncFrom(a, p, i + 1)

BigTrunc(a, p) == CHOOSE res \in {TruncFrom(x, q, 1) : x \in {a}, q \in {p}} : TRUE

BigBit(a, p) == (a[(p \div LimbBits) + 1] \div (2 ^ (p % LimbBits))) % 2

\* Values are bound by quantification (x \in {e}) wherever they are used more
\* than once, so that each is computed once.
\*
\* a rounded at bit p: t is a with its p low bits cleared and low the bits
\* cleared.
RoundAt(a, p, sticky) ==
    CHOOSE res \in
        {IF \/ BigLess(half, low)
            \/ low = half /\ (sticky \/ BigBit(a, p) = 1)
         THEN BigAdd(t, BigPow2(p)) ELSE t :
            t \in {BigTrunc(a, p)}, low \in {BigSub(a, BigTrunc(a, p))},
            half \in {BigPow2(p - 1)}} : TRUE

\* Round the exact value v (+ a positive fraction below one unit when
\* sticky) to MantissaBits significant bits, ties to even.
Round53(v, sticky) ==
    CHOOSE res \in
        {IF len <= MantissaBits THEN a ELSE RoundAt(a, len - MantissaBits, sticky) :
            a \in {v}, len \in {BitLen(v)}} : TRUE

\* A number: sign and magnitude.
Num(neg, m) == CHOOSE res \in {[neg |-> neg /\ mag # BigZero, mag |-> mag] : mag \in {m}} : TRUE

Zero == Num(FALSE, BigZero)

FNeg(a) == CHOOSE res \in {Num(~x.neg, x.mag) : x \in {a}} : TRUE

FAbs(x) == Num(FALSE, x.mag)

FLess(a, b) ==
    \E x \in {a}, y \in {b} :
        IF x.neg /\ ~y.neg THEN TRUE
        ELSE IF ~x.neg /\ y.neg THEN FALSE
        ELSE IF x.neg THEN BigLess(y.mag, x.mag)
        ELSE BigLess(x.mag, y.mag)

FLeq(x, y) == ~FLess(y, x)

FAdd(a, b) ==
    CHOOSE res \in
        {IF x.neg = y.neg THEN Num(x.neg, Round53(BigAdd(x.mag, y.mag), FALSE))
         ELSE IF BigLess(x.mag, y.mag) THEN Num(y.neg, Round53(BigSub(y.mag, x.mag), FALSE))
         ELSE Num(x.neg, Round53(BigSub(x.mag, y.mag), FALSE)) :
            x \in {a}, y \in {b}} : TRUE

FSub(x, y) == FAdd(x, FNeg(y))

\* x / k and k * x for a small positive integer k
FDivInt(a, k) ==
    CHOOSE res \in {Num(x.neg, Round53(d.q, d.r # 0)) :
                        x \in {a}, d \in {BigDivSmall(a.mag, k)}} : TRUE

FMulInt(k, a) ==
    CHOOSE res \in {Num(x.neg, Round53(BigMulSmall(x.mag, k), FALSE)) : x \in {a}} : TRUE

\* Math.min, Math.abs
Min(a, b) == CHOOSE res \in {IF FLess(y, x) THEN y ELSE x : x \in {a}, y \in {b}} : TRUE

Abs(a) == FAbs(a)

\* z.coerce.number() of a decimal with four decimals: d stands for d / 10^4.
FromDec(d) ==
    LET m == IF d < 0 THEN 0 - d ELSE d
        n == [i \in Limbs |-> IF i = FracLimbs + 1 THEN m % Base
                              ELSE IF i = FracLimbs + 2 THEN m \div Base ELSE 0]
        q == BigDivSmall(n, 10000)
    IN Num(d < 0, Round53(q.q, q.r # 0))

\* Number.isInteger
IsInteger(v) == \A i \in 1..FracLimbs : v.mag[i] = 0

\* Number.prototype.toFixed(4): the printed digits as a signed count of
\* ten-thousandths (the nearest one; of two equally near, the larger).
ToFixed4(v) ==
    CHOOSE res \in
        {IF v.neg THEN 0 - (s[FracLimbs + 1] + Base * s[FracLimbs + 2])
         ELSE s[FracLimbs + 1] + Base * s[FracLimbs + 2] :
            s \in {BigAdd(BigMulSmall(v.mag, 10000), BigPow2(LimbBits * FracLimbs - 1))}} : TRUE

\* Array.prototype.sort((a, b) => a - b): ascending numeric order.
RECURSIVE Insert(_, _)
Insert(s, x) ==
    IF s = <<>> THEN <<x>>
    ELSE IF FLess(x, Head(s)) THEN <<x>> \o s
    ELSE <<Head(s)>> \o Insert(Tail(s), x)

RECURSIVE SortAsc(_)
SortAsc(s) == IF s = <<>> THEN <<>> ELSE Insert(SortAsc(SubSeq(s, 1, Len(s) - 1)), s[Len(s)])

\* formatFeed: `${f}.` for an integral feed, f.toString() otherwise.
formatFeed(f) == IF IsInteger(f) THEN "toString." ELSE "toString"

\* Decimal inputs used by the form (as the user types them).
Tenth == FromDec(1000)
Quarter == FromDec(2500)
HalfInch == FromDec(5000)
Inch == FromDec(10000)

\* --------------------------------------------------------------- line model
\* An address word: letter w, the literal sign character the template puts
\* before the value ("-" or ""), the rendering fmt, and what is rendered:
\*   "fixed4"    x.toFixed(4); n is the printed digits in ten-thousandths
\*   "toString"  `${x}` of a number x; v is x
\*   "toString." `${x}.` of an integral number x; v is x
\*   "int"       an integer printed bare ("0", "01", "3000"); n is the integer
\*   "int."      a literal integer followed by a point ("0."); n is the integer
\*   "dec1"      a literal with one decimal ("1.0"); n is its integer part
Arg(w, sgn, fmt, n, v) == [w |-> w, sgn |-> sgn, fmt |-> fmt, n |-> n, v |-> v]

Fixed(w, sgn, x) == Arg(w, sgn, "fixed4", ToFixed4(x), Zero)

Str(w, x) == Arg(w, "", "toString", 0, x)

IntArg(w, k) == Arg(w, "", "int", k, Zero)

F(f) == Arg("F", "", formatFeed(f), 0, f)

X0 == Arg("X", "", "int.", 0, Zero)
Y0 == Arg("Y", "", "int.", 0, Zero)
J0 == Arg("J", "", "int.", 0, Zero)

Block(codes, args) == [kind |-> "block", codes |-> codes, args |-> args, cmt |-> ""]

BlockC(codes, args, cmt) == [kind |-> "block", codes |-> codes, args |-> args, cmt |-> cmt]

Comment(cmt, args) == [kind |-> "comment", codes |-> <<>>, args |-> args, cmt |-> cmt]

\* ------------------------------------------------------------------- state
VARIABLES
    gen,            \* which generator's onSubmit ran: "none", "pocket", "thread", "drill"
    data,           \* the FormValues record passed to generateGCode
    pc,             \* position inside generateGCode
    gcode,          \* the program text built so far (sequence of lines)
    ret,            \* what generateGCode returned: "none", "error", "program"
    currentDepth,   \* pocket: let currentDepth
    previousDepth,  \* pocket: const previousDepth of the current depth pass
    currentRadius,  \* pocket: let currentRadius
    radii,          \* thread: const radii (after sort)
    idx,            \* thread: forEach index
    currentThreadZ, \* thread: let currentThreadZ
    loc,            \* the const locals derived from data (radii, pitch, I value)
    gCode,          \* the form component's React state gCode (what is displayed)
    formErrors,     \* the form has validation errors (the resolver rejected a submit)
    flowCalls,      \* number of invocations of generateSafeGCode
    actionResult,   \* what generateGCodeAction resolved to
    copied,         \* the form component's React state copied (the copy indicator)
    timers,         \* number of pending setTimeout(() => setCopied(false), 2000) callbacks
    clipboard       \* what navigator.clipboard holds

vars == <<gen, data, pc, gcode, ret, currentDepth, previousDepth, currentRadius,
          radii, idx, currentThreadZ, loc, gCode, formErrors, flowCalls, actionResult,
          copied, timers, clipboard>>

formVars == <<gCode, formErrors>>

copyVars == <<copied, timers, clipboard>>

aiVars == <<flowCalls, actionResult>>

\* useState<string | null>(null), and setGCode(generatedCode)
NullCode == [ret |-> "none", text |-> <<>>]

Shown(r, text) == [ret |-> r, text |-> text]

\* generateGCodeAction has not resolved
NoResult == [none |-> TRUE]

NoData == [none |-> TRUE]

Init ==
    /\ gen = "none"
    /\ data = NoData
    /\ pc = "idle"
    /\ gcode = <<>>
    /\ ret = "none"
    /\ currentDepth = Zero
    /\ previousDepth = Zero
    /\ currentRadius = Zero
    /\ radii = <<>>
    /\ idx = 0
    /\ currentThreadZ = Zero
    /\ loc = NoData
    /\ gCode = NullCode
    /\ formErrors = FALSE
    /\ flowCalls = 0
    /\ actionResult = NoResult
    /\ copied = FALSE
    /\ timers = 0
    /\ clipboard = NullCode

\* ------------------------------------------------------------ shared inputs
Speeds == {3000}
\* feed and rPlane are drawn together: an integral feed with a fractional
\* rPlane, and a fractional feed with an integral rPlane
Setups == {[feed |-> Inch, rPlane |-> Tenth], [feed |-> HalfInch, rPlane |-> Inch]}
ToolNumbers == {2}

Positive(x) == FLess(Zero, x)

\* ========================================================= pocket generator
\* totalDepthOfCut and depthPerPass are drawn together: k passes of 0.3, the
\* form's defaults 0.5 / 0.25, a remainder pass (0.5 / 0.3), eight passes of
\* 0.1, and a pair the schema rejects (0.25 / 0.3).
DepthPlans ==
    {[total |-> FromDec(k * 3000), pass |-> FromDec(3000)] : k \in 1..MaxDepthPasses}
    \cup {[total |-> HalfInch, pass |-> Quarter],
          [total |-> HalfInch, pass |-> FromDec(3000)],
          [total |-> FromDec(8000), pass |-> Tenth],
          [total |-> Quarter, pass |-> FromDec(3000)]}

PocketValues ==
    {[cutterDiameter |-> FromDec(c * 5000),
      circleDiameter |-> FromDec(k * 5000),
      speed |-> sp,
      feed |-> su.feed,
      totalDepthOfCut |-> dp.total,
      depthPerPass |-> dp.pass,
      stepover |-> FromDec(so * 1000),
      millingDirection |-> md,
      rPlane |-> su.rPlane,
      toolNumber |-> tn] :
        c \in 1..MaxCutterHalves, k \in 1..MaxCircleHalves, sp \in Speeds, su \in Setups,
        dp \in DepthPlans, so \in 0..MaxStepoverTenths,
        md \in {"climb", "conventional"}, tn \in ToolNumbers}

\* The object schema without its .refine(...)
PocketSchemaNoRefine(d) ==
    /\ Positive(d.cutterDiameter)
    /\ Positive(d.circleDiameter)
    /\ d.speed > 0
    /\ Positive(d.feed)
    /\ Positive(d.totalDepthOfCut)
    /\ Positive(d.depthPerPass)
    /\ Positive(d.stepover)
    /\ d.millingDirection \in {"climb", "conventional"}
    /\ Positive(d.rPlane)
    /\ d.toolNumber > 0

PocketSchema(d) ==
    /\ Positive(d.cutterDiameter)
    /\ Positive(d.circleDiameter)
    /\ d.speed > 0
    /\ Positive(d.feed)
    /\ Positive(d.totalDepthOfCut)
    /\ Positive(d.depthPerPass)
    /\ Positive(d.stepover)
    /\ d.millingDirection \in {"climb", "conventional"}
    /\ Positive(d.rPlane)
    /\ d.toolNumber > 0
    /\ FLeq(d.depthPerPass, d.totalDepthOfCut)

PocketToolRadius(d) == FDivInt(d.cutterDiameter, 2)

PocketFinalRadius(d) == FDivInt(d.circleDiameter, 2)

\* if (cutterDiameter >= circleDiameter) return 'Error: ...'
PocketGuardStrict(d) == FLess(d.circleDiameter, d.cutterDiameter)

PocketGuard(d) == FLeq(d.circleDiameter, d.cutterDiameter)

\* currentDepth = Math.min(currentDepth + depthPerPass, totalDepthOfCut)
NextDepthMax(cur, d) == IF FLess(FAdd(cur, d.depthPerPass), d.totalDepthOfCut)
                        THEN d.totalDepthOfCut ELSE FAdd(cur, d.depthPerPass)

NextDepth(cur, d) == Min(FAdd(cur, d.depthPerPass), d.totalDepthOfCut)

PocketCompensationDirection(d) == IF d.millingDirection = "climb" THEN "G41" ELSE "G42"

PocketDirectionGCode(d) == IF d.millingDirection = "climb" THEN "G03" ELSE "G02"

rampRadiusNoSpace(d) == Zero

rampRadius(d) ==
    FDivInt(Min(d.stepover, FSub(PocketFinalRadius(d), PocketToolRadius(d))), 2)

finalPathRadiusNoTool(d) == PocketFinalRadius(d)

finalPathRadius(d) == FSub(PocketFinalRadius(d), PocketToolRadius(d))

\* while (currentRadius < finalPathRadius)
StepoverLoopCond(cur, fpr) == FLess(cur, fpr)

\* G01 G40 X0. Y0. F..: return to center, cancel compensation
PocketCompOffMissing(d) == Block(<<"G01">>, <<X0, Y0, F(d.feed)>>)

PocketCompOff(d) == Block(<<"G01", "G40">>, <<X0, Y0, F(d.feed)>>)

PocketHeader(d) ==
    << Comment("Circular Interpolation - Concentric Circles", <<>>),
       Comment(IF d.millingDirection = "climb" THEN "Direction: Climb"
               ELSE "Direction: Conventional", <<>>),
       Comment("Cutter Dia, Circle Dia",
               <<Str("CutterDia", d.cutterDiameter), Str("CircleDia", d.circleDiameter)>>),
       Block(<<"G90", "G17", "G20", "G40", "G80">>, <<>>),
       BlockC(<<"M06">>, <<IntArg("T", d.toolNumber)>>, "SELECT TOOL"),
       Block(<<"G54">>, <<>>),
       Block(<<"M03">>, <<IntArg("S", d.speed)>>),
       Block(<<"G00">>, <<X0, Y0>>),
       Block(<<"G43">>, <<IntArg("H", d.toolNumber), Str("Z", d.rPlane)>>) >>

PocketEntryRapidDown(d, ramp, prev, cur) ==
    << Block(<<"G00">>, <<Fixed("Z", "-", cur)>>),
       Block(<<"G01">>, <<X0, Y0, F(d.feed)>>),
       Block(<<"G01">>, <<Fixed("X", "", ramp), F(FDivInt(d.feed, 2))>>),
       Block(<<PocketDirectionGCode(d)>>,
             <<Fixed("I", "-", ramp), J0, Fixed("Z", "-", cur), F(FDivInt(d.feed, 2))>>),
       Block(<<PocketDirectionGCode(d)>>, <<Fixed("I", "-", ramp), J0, F(d.feed)>>) >>

PocketEntry(d, ramp, prev, cur) ==
    IF Positive(ramp)
    THEN << Block(<<"G00">>, <<Fixed("Z", "-", prev)>>),
            Block(<<"G01">>, <<X0, Y0, F(d.feed)>>),
            Block(<<"G01">>, <<Fixed("X", "", ramp), F(FDivInt(d.feed, 2))>>),
            Block(<<PocketDirectionGCode(d)>>,
                  <<Fixed("I", "-", ramp), J0, Fixed("Z", "-", cur),
                    F(FDivInt(d.feed, 2))>>),
            Block(<<PocketDirectionGCode(d)>>,
                  <<Fixed("I", "-", ramp), J0, F(d.feed)>>) >>
    ELSE << Block(<<"G01">>, <<Fixed("Z", "-", cur), F(FDivInt(d.feed, 2))>>) >>

PocketCircleLinesNoCircle(d, r) ==
    << Block(<<"G01">>, <<Fixed("X", "", r), Y0, F(d.feed)>>) >>

PocketCircleLines(d, r) ==
    << Block(<<"G01">>, <<Fixed("X", "", r), Y0, F(d.feed)>>),
       Block(<<PocketDirectionGCode(d)>>, <<Fixed("I", "-", r), J0, F(d.feed)>>) >>

PocketFooterLinesNoEnd(d) ==
    << Block(<<"G00">>, <<Str("Z", d.rPlane)>>),
       Block(<<"M05">>, <<>>),
       Block(<<"G91", "G28">>, <<IntArg("Z", 0)>>),
       Block(<<"G91", "G28">>, <<IntArg("X", 0), IntArg("Y", 0)>>),
       Block(<<"G90">>, <<>>) >>

PocketFooterLines(d) ==
    << Block(<<"G00">>, <<Str("Z", d.rPlane)>>),
       Block(<<"M05">>, <<>>),
       Block(<<"G91", "G28">>, <<IntArg("Z", 0)>>),
       Block(<<"G91", "G28">>, <<IntArg("X", 0), IntArg("Y", 0)>>),
       Block(<<"G90">>, <<>>),
       Block(<<"M30">>, <<>>) >>

\* onSubmit -> generateGCode: destructuring, geometry guard, header.
PocketSubmit(values) ==
    /\ pc = "idle"
    /\ PocketSchema(values)
    /\ gen' = "pocket"
    /\ data' = values
    /\ IF PocketGuard(values)
       THEN /\ ret' = "error"
            /\ pc' = "done"
            /\ gcode' = gcode
       ELSE /\ ret' = ret
            /\ pc' = "depthLoop"
            /\ gcode' = PocketHeader(values)
    /\ currentDepth' = Zero
    /\ loc' = [toolRadius |-> PocketToolRadius(values), finalRadius |-> PocketFinalRadius(values)]
    /\ UNCHANGED <<previousDepth, currentRadius, radii, idx, currentThreadZ>>
    /\ formErrors' = FALSE
    /\ gCode' = IF PocketGuard(values) THEN Shown("error", <<>>) ELSE gCode
    /\ UNCHANGED aiVars
    /\ UNCHANGED copyVars

\* The entries of the form the resolver rejects.
PocketRejected == {values \in PocketValues : ~PocketSchema(values)}

\* form.handleSubmit(onSubmit) with values the resolver rejects: the field
\* errors are set and onSubmit is not called.
PocketInvalidSubmit ==
    /\ gen \in {"none", "pocket"}
    /\ pc \in {"idle", "done"}
    /\ PocketRejected # {}
    /\ formErrors' = TRUE
    /\ UNCHANGED <<gen, data, pc, gcode, ret, currentDepth, previousDepth, currentRadius,
                   radii, idx, currentThreadZ, loc, gCode>>
    /\ UNCHANGED aiVars
    /\ UNCHANGED copyVars

\* One iteration of the depth loop up to the stepover loop.
PocketDepthPass ==
    /\ gen = "pocket"
    /\ pc = "depthLoop"
    /\ FLess(currentDepth, data.totalDepthOfCut)
    /\ LET next == NextDepth(currentDepth, data)
           ramp == rampRadius(data)
       IN /\ previousDepth' = currentDepth
          /\ currentDepth' = next
          /\ loc' = [toolRadius |-> loc.toolRadius, finalRadius |-> loc.finalRadius,
                      rampRadius |-> ramp, finalPathRadius |-> finalPathRadius(data)]
          /\ gcode' = gcode
                      \o << Comment("Pass at", <<Fixed("Z", "-", next)>>) >>
                      \o PocketEntry(data, ramp, currentDepth, next)
                      \o << Block(<<"G01", PocketCompensationDirection(data)>>,
                                  <<IntArg("D", 1), X0, Y0, F(data.feed)>>) >>
    /\ currentRadius' = data.stepover
    /\ pc' = "stepoverLoop"
    /\ UNCHANGED <<gen, data, ret, radii, idx, currentThreadZ>>
    /\ UNCHANGED formVars
    /\ UNCHANGED aiVars
    /\ UNCHANGED copyVars

\* One iteration of the stepover loop.
PocketCircle ==
    /\ gen = "pocket"
    /\ pc = "stepoverLoop"
    /\ StepoverLoopCond(currentRadius, loc.finalPathRadius)
    /\ gcode' = gcode \o PocketCircleLines(data, currentRadius)
    /\ currentRadius' = FAdd(currentRadius, data.stepover)
    /\ UNCHANGED <<gen, data, pc, ret, currentDepth, previousDepth, radii, idx,
                   currentThreadZ, loc>>
    /\ UNCHANGED formVars
    /\ UNCHANGED aiVars
    /\ UNCHANGED copyVars

\* Exit of the stepover loop: final pass and compensation cancel.
PocketFinalPass ==
    /\ gen = "pocket"
    /\ pc = "stepoverLoop"
    /\ ~StepoverLoopCond(currentRadius, loc.finalPathRadius)
    /\ gcode' = gcode
                \o PocketCircleLines(data, loc.finalPathRadius)
                \o << PocketCompOff(data) >>
    /\ pc' = "depthLoop"
    /\ UNCHANGED <<gen, data, ret, currentDepth, previousDepth, currentRadius,
                   radii, idx, currentThreadZ, loc>>
    /\ UNCHANGED formVars
    /\ UNCHANGED aiVars
    /\ UNCHANGED copyVars

\* Exit of the depth loop: footer and return.
PocketFooter ==
    /\ gen = "pocket"
    /\ pc = "depthLoop"
    /\ ~FLess(currentDepth, data.totalDepthOfCut)
    /\ gcode' = gcode \o PocketFooterLines(data)
    /\ ret' = "program"
    /\ pc' = "done"
    /\ UNCHANGED <<gen, data, currentDepth, previousDepth, currentRadius,
                   radii, idx, currentThreadZ, loc>>
    /\ gCode' = Shown("program", gcode')
    /\ UNCHANGED formErrors
    /\ UNCHANGED aiVars
    /\ UNCHANGED copyVars

\* ==================================================== thread-mill generator
MaxRadialPasses == 5

ThreadValues ==
    {[threadMillDiameter |-> tm,
      threadsPerInch |-> tpi,
      minorDiameter |-> mi,
      majorDiameter |-> ma,
      threadDepth |-> td,
      speed |-> sp,
      feed |-> su.feed,
      hand |-> h,
      rPlane |-> su.rPlane,
      toolNumber |-> tn,
      radialPasses |-> rp] :
        tm \in {Quarter, FromDec(4000), FromDec(30000)}, tpi \in {4, 20},
        mi \in {FromDec(2010), HalfInch}, ma \in {Quarter, HalfInch},
        td \in {FromDec(4000), HalfInch}, sp \in Speeds, su \in Setups,
        h \in {"rh", "lh"}, tn \in ToolNumbers, rp \in 0..(MaxRadialPasses + 1)}

ThreadSchema(d) ==
    /\ Positive(d.threadMillDiameter)
    /\ d.threadsPerInch > 0
    /\ Positive(d.minorDiameter)
    /\ Positive(d.majorDiameter)
    /\ Positive(d.threadDepth)
    /\ d.speed > 0
    /\ Positive(d.feed)
    /\ d.hand \in {"rh", "lh"}
    /\ Positive(d.rPlane)
    /\ d.toolNumber > 0
    /\ d.radialPasses >= 1
    /\ d.radialPasses <= MaxRadialPasses
    /\ FLess(d.minorDiameter, d.majorDiameter)

ThreadToolRadius(d) == FDivInt(d.threadMillDiameter, 2)

majorRadius(d) == FDivInt(d.majorDiameter, 2)

\* 1 / threadsPerInch (threadsPerInch is drawn from whole numbers)
threadPitch(d) == FDivInt(Inch, d.threadsPerInch)

\* majorRadius - toolRadius; may be zero or negative.
pathRadius(d) == FSub(majorRadius(d), ThreadToolRadius(d))

helicalDirectionSwapped(d) == IF d.hand = "rh" THEN "G02" ELSE "G03"

helicalDirection(d) == IF d.hand = "rh" THEN "G03" ELSE "G02"

ThreadCompensationDirection(d) == IF d.hand = "rh" THEN "G41" ELSE "G42"

passes(d) == IF d.radialPasses = 0 THEN 1 ELSE d.radialPasses

radialCutAmount(d) == ThreadToolRadius(d)

nominalRadialStep == Inch

maxStep == Abs(nominalRadialStep)

radialStep(d) == Min(Abs(FDivInt(radialCutAmount(d), passes(d))), maxStep)

iValue(d) == FDivInt(Abs(pathRadius(d)), passes(d))

zBottom(d) == FNeg(d.threadDepth)

\* Array.from({length: passes}, (_, i) => Math.abs(pathRadius - i * radialStep))
Candidates(d) ==
    [k \in 1..passes(d) |-> Abs(FSub(pathRadius(d), FMulInt(k - 1, radialStep(d))))]

\* radii.sort((a, b) => a - b)
RadiiUnsorted(d) == Candidates(d)

Radii(d) == SortAsc(Candidates(d))

\* G01 G40 X-<thisRadius> Y0.
ThreadCompOffStay(d, r) == Block(<<"G01", "G40">>, <<X0, Y0>>)

ThreadCompOffMissing(d, r) == Block(<<"G01">>, <<Fixed("X", "-", r), Y0>>)

ThreadCompOff(d, r) == Block(<<"G01", "G40">>, <<Fixed("X", "-", r), Y0>>)

ThreadHeader(d) ==
    << Comment(IF d.hand = "rh" THEN "Thread Milling G-Code - Right Hand"
               ELSE "Thread Milling G-Code - Left Hand", <<>>),
       Comment("Major Dia, TPI",
               <<Str("MajorDia", d.majorDiameter), IntArg("TPI", d.threadsPerInch)>>),
       BlockC(<<"G20">>, <<>>, "INCH MODE"),
       Block(<<"G90", "G17", "G40", "G80">>, <<>>),
       BlockC(<<"M06">>, <<IntArg("T", d.toolNumber)>>, "SELECT TOOL"),
       Block(<<"G54", "M03">>, <<IntArg("S", d.speed)>>),
       Block(<<"G0">>, <<X0, Y0>>),
       Block(<<"G43", "M08">>, <<Str("Z", d.rPlane), IntArg("H", d.toolNumber)>>),
       Block(<<"G01">>, <<Fixed("Z", "", zBottom(d)), F(d.feed)>>),
       Block(<<"G91">>, <<>>) >>

ThreadFooterLinesNoAbs(d) ==
    << Block(<<"G00">>, <<Str("Z", d.rPlane)>>),
       Block(<<"M05">>, <<>>),
       Block(<<"M09">>, <<>>),
       Block(<<"G91", "G28">>, <<IntArg("Z", 0)>>),
       Block(<<"G91", "G28">>, <<IntArg("X", 0), IntArg("Y", 0)>>),
       Block(<<"G90">>, <<>>),
       Block(<<"M30">>, <<>>) >>

ThreadFooterLinesNoEnd(d) ==
    << Block(<<"G90">>, <<>>),
       Block(<<"G00">>, <<Str("Z", d.rPlane)>>),
       Block(<<"M05">>, <<>>),
       Block(<<"M09">>, <<>>),
       Block(<<"G91", "G28">>, <<IntArg("Z", 0)>>),
       Block(<<"G91", "G28">>, <<IntArg("X", 0), IntArg("Y", 0)>>),
       Block(<<"G90">>, <<>>) >>

ThreadFooterLines(d) ==
    << Block(<<"G90">>, <<>>),
       Block(<<"G00">>, <<Str("Z", d.rPlane)>>),
       Block(<<"M05">>, <<>>),
       Block(<<"M09">>, <<>>),
       Block(<<"G91", "G28">>, <<IntArg("Z", 0)>>),
       Block(<<"G91", "G28">>, <<IntArg("X", 0), IntArg("Y", 0)>>),
       Block(<<"G90">>, <<>>),
       Block(<<"M30">>, <<>>) >>

\* onSubmit -> generateGCode: destructuring, derived values, header, radii.
ThreadSubmit(values) ==
    /\ pc = "idle"
    /\ ThreadSchema(values)
    /\ gen' = "thread"
    /\ data' = values
    /\ gcode' = ThreadHeader(values)
    /\ radii' = Radii(values)
    /\ idx' = 0
    /\ pc' = "forEach"
    /\ loc' = [threadPitch |-> threadPitch(values), pathRadius |-> pathRadius(values),
                radialStep |-> radialStep(values), iValue |-> iValue(values)]
    /\ UNCHANGED <<ret, currentDepth, previousDepth, currentRadius, currentThreadZ>>
    /\ formErrors' = FALSE
    /\ UNCHANGED gCode
    /\ UNCHANGED aiVars
    /\ UNCHANGED copyVars

\* The entries of the form the resolver rejects.
ThreadRejected == {values \in ThreadValues : ~ThreadSchema(values)}

\* form.handleSubmit(onSubmit) with values the resolver rejects.
ThreadInvalidSubmit ==
    /\ gen \in {"none", "thread"}
    /\ pc \in {"idle", "done"}
    /\ ThreadRejected # {}
    /\ formErrors' = TRUE
    /\ UNCHANGED <<gen, data, pc, gcode, ret, currentDepth, previousDepth, currentRadius,
                   radii, idx, currentThreadZ, loc, gCode>>
    /\ UNCHANGED aiVars
    /\ UNCHANGED copyVars

\* Start of one forEach callback: pass comment and compensation-on move.
ThreadPassStart ==
    /\ gen = "thread"
    /\ pc = "forEach"
    /\ idx < Len(radii)
    /\ gcode' = gcode
                \o << Comment("Pass", <<IntArg("Pass", idx + 1)>>),
                      Block(<<"G01", ThreadCompensationDirection(data)>>,
                            <<IntArg("D", data.toolNumber),
                              Fixed("X", "", radii[idx + 1]), Y0, F(data.feed)>>) >>
    /\ currentThreadZ' = Zero
    /\ pc' = "helix"
    /\ UNCHANGED <<gen, data, ret, currentDepth, previousDepth, currentRadius, radii, idx,
                   loc>>
    /\ UNCHANGED formVars
    /\ UNCHANGED aiVars
    /\ UNCHANGED copyVars

\* One iteration of the helical loop.
ThreadHelix ==
    /\ gen = "thread"
    /\ pc = "helix"
    /\ FLess(currentThreadZ, data.threadDepth)
    /\ LET zMove == Min(loc.threadPitch, FSub(data.threadDepth, currentThreadZ))
       IN /\ gcode' = gcode
                      \o << Block(<<helicalDirection(data)>>,
                                  <<X0, Y0, Fixed("Z", "", zMove),
                                    Fixed("I", "-", loc.iValue), J0, F(data.feed)>>) >>
          /\ currentThreadZ' = FAdd(currentThreadZ, zMove)
    /\ UNCHANGED <<gen, data, pc, ret, currentDepth, previousDepth, currentRadius, radii, idx,
                   loc>>
    /\ UNCHANGED formVars
    /\ UNCHANGED aiVars
    /\ UNCHANGED copyVars

\* Exit of the helical loop: compensation cancel, end of the callback.
ThreadPassEnd ==
    /\ gen = "thread"
    /\ pc = "helix"
    /\ ~FLess(currentThreadZ, data.threadDepth)
    /\ gcode' = gcode \o << ThreadCompOff(data, radii[idx + 1]) >>
    /\ idx' = idx + 1
    /\ pc' = "forEach"
    /\ UNCHANGED <<gen, data, ret, currentDepth, previousDepth, currentRadius, radii,
                   currentThreadZ, loc>>
    /\ UNCHANGED formVars
    /\ UNCHANGED aiVars
    /\ UNCHANGED copyVars

\* After forEach: footer and return.
ThreadFooter ==
    /\ gen = "thread"
    /\ pc = "forEach"
    /\ ~(idx < Len(radii))
    /\ gcode' = gcode \o ThreadFooterLines(data)
    /\ ret' = "program"
    /\ pc' = "done"
    /\ UNCHANGED <<gen, data, currentDepth, previousDepth, currentRadius, radii, idx,
                   currentThreadZ, loc>>
    /\ gCode' = Shown("program", gcode')
    /\ UNCHANGED formErrors
    /\ UNCHANGED aiVars
    /\ UNCHANGED copyVars

\* ======================================================= drilling generator
DrillValues ==
    {[speed |-> sp,
      feed |-> su.feed,
      toolNumber |-> tn,
      holeDiameter |-> hd,
      peckAmount |-> pk,
      rPlane |-> su.rPlane,
      totalDepth |-> td,
      coolant |-> co] :
        sp \in Speeds, su \in Setups, tn \in ToolNumbers, hd \in {Quarter, HalfInch},
        pk \in {Tenth, Quarter}, td \in {HalfInch, Inch}, co \in {"on", "off"}}

DrillSchema(d) ==
    /\ d.speed > 0
    /\ Positive(d.feed)
    /\ d.toolNumber > 0
    /\ Positive(d.holeDiameter)
    /\ Positive(d.peckAmount)
    /\ Positive(d.rPlane)
    /\ Positive(d.totalDepth)
    /\ d.coolant \in {"on", "off"}

DrillProgram(d) ==
    << Comment("Drilling Cycle - G83", <<>>),
       Comment("Hole Dia", <<Str("HoleDia", d.holeDiameter)>>),
       Block(<<"G90", "G17", "G20", "G40", "G80">>, <<>>),
       BlockC(<<"M06">>, <<IntArg("T", d.toolNumber)>>, "SELECT TOOL"),
       Block(<<"G54">>, <<>>),
       Block(<<"M03">>, <<IntArg("S", d.speed)>>) >>
    \o (IF d.coolant = "on" THEN << Block(<<"M08">>, <<>>) >> ELSE <<>>)
    \o << Block(<<"G00">>, <<X0, Y0>>),
          Block(<<"G43">>, <<IntArg("H", d.toolNumber), Str("Z", d.rPlane)>>),
          Block(<<"G83">>, <<Fixed("Z", "-", d.totalDepth), Fixed("Q", "", d.peckAmount),
                             Fixed("R", "", d.rPlane), F(d.feed)>>),
          Block(<<"G80">>, <<>>),
          Block(<<"G00">>, <<Arg("Z", "", "dec1", 1, Zero)>>) >>
    \o (IF d.coolant = "on" THEN << Block(<<"M09">>, <<>>) >> ELSE <<>>)
    \o << Block(<<"M05">>, <<>>),
          Block(<<"G91", "G28">>, <<IntArg("Z", 0)>>),
          Block(<<"G91", "G28">>, <<IntArg("X", 0), IntArg("Y", 0)>>),
          Block(<<"G90">>, <<>>),
          Block(<<"M30">>, <<>>) >>

\* onSubmit -> generateGCode: straight-line code, no loop.
DrillSubmit(values) ==
    /\ pc = "idle"
    /\ DrillSchema(values)
    /\ gen' = "drill"
    /\ data' = values
    /\ gcode' = DrillProgram(values)
    /\ ret' = "program"
    /\ pc' = "done"
    /\ UNCHANGED <<currentDepth, previousDepth, currentRadius, radii, idx, currentThreadZ,
                   loc>>
    /\ formErrors' = FALSE
    /\ gCode' = Shown("program", gcode')
    /\ UNCHANGED aiVars
    /\ UNCHANGED copyVars

\* ===================================================== delegated generation
\* null
Null == <<>>

Some(x) == <<x>>

\* GenerateSafeGCodeInputSchema: three numbers.
ActionInputs ==
    {[parameter1 |-> p1, parameter2 |-> p2, parameter3 |-> p3] :
        p1 \in {Zero, Inch}, p2 \in {Tenth, Inch}, p3 \in {Quarter}}

\* GenerateSafeGCodeOutputSchema: the program text, the list of checks and
\* the flag, as the model call produced them.
FlowOutputs ==
    {[gCode |-> g, safetyChecks |-> s, valid |-> v] :
        g \in {"", "G02 X1. Y0. I-1. J0."}, s \in {<<>>, <<"radius is positive">>},
        v \in BOOLEAN}

\* What the awaited call can throw: an Error with its message, or a value
\* that is not an Error.
Thrown ==
    {[isError |-> TRUE, message |-> m] : m \in {"", "quota exceeded"}}
    \cup {[isError |-> FALSE, message |-> "rejected"]}

\* e instanceof Error ? e.message : 'An unexpected error occurred.'
errorMessage(e) == IF e.isError THEN e.message ELSE "An unexpected error occurred."

\* return { data: result, error: null }
ActionSuccess(result) == [data |-> Some(result), error |-> Null]

ActionFailureSilent(e) == [data |-> Null, error |-> Null]

\* return { data: null, error: `Failed to generate G-code. ${errorMessage}` }
ActionFailure(e) ==
    [data |-> Null, error |-> Some("Failed to generate G-code. " \o errorMessage(e))]

\* generateGCodeAction(input) up to the await: generateSafeGCode(input)
\* returns generateSafeGCodeFlow(input).
ActionCall(input) ==
    /\ pc = "idle"
    /\ gen' = "ai"
    /\ data' = input
    /\ flowCalls' = flowCalls + 1
    /\ pc' = "awaitFlow"
    /\ UNCHANGED <<gcode, ret, currentDepth, previousDepth, currentRadius, radii, idx,
                   currentThreadZ, loc, actionResult>>
    /\ UNCHANGED formVars
    /\ UNCHANGED copyVars

\* The flow resolves with the prompt's output.
FlowResolve(output) ==
    /\ pc = "awaitFlow"
    /\ loc' = [result |-> output]
    /\ pc' = "return"
    /\ UNCHANGED <<gen, data, gcode, ret, currentDepth, previousDepth, currentRadius,
                   radii, idx, currentThreadZ>>
    /\ UNCHANGED formVars
    /\ UNCHANGED aiVars
    /\ UNCHANGED copyVars

\* The flow rejects: control enters the catch block.
FlowThrow(e) ==
    /\ pc = "awaitFlow"
    /\ loc' = [e |-> e]
    /\ pc' = "catch"
    /\ UNCHANGED <<gen, data, gcode, ret, currentDepth, previousDepth, currentRadius,
                   radii, idx, currentThreadZ>>
    /\ UNCHANGED formVars
    /\ UNCHANGED aiVars
    /\ UNCHANGED copyVars

ActionReturn ==
    /\ pc = "return"
    /\ actionResult' = ActionSuccess(loc.result)
    /\ pc' = "settled"
    /\ UNCHANGED <<gen, data, gcode, ret, currentDepth, previousDepth, currentRadius,
                   radii, idx, currentThreadZ, loc, flowCalls>>
    /\ UNCHANGED formVars
    /\ UNCHANGED copyVars

ActionCatch ==
    /\ pc = "catch"
    /\ actionResult' = ActionFailure(loc.e)
    /\ pc' = "settled"
    /\ UNCHANGED <<gen, data, gcode, ret, currentDepth, previousDepth, currentRadius,
                   radii, idx, currentThreadZ, loc, flowCalls>>
    /\ UNCHANGED formVars
    /\ UNCHANGED copyVars

\* ============================================================ specification
\* ============================================================ copy button
\* Most reset timers the model lets be pending at once.
MaxPendingTimers == 2

\* if (gCode): null is falsy; a displayed result is the error message or a
\* program, never the empty string
Truthy(code) == code # NullCode

\* navigator.clipboard.writeText(gCode); setCopied(true);
\* setTimeout(() => setCopied(false), 2000)
Copy ==
    /\ clipboard' = gCode
    /\ copied' = TRUE
    /\ timers' = timers + 1

\* handleCopy: a click on the copy button.  Event handlers run to
\* completion, so a click is handled between calls of generateGCode.
handleCopy ==
    /\ pc \in {"idle", "done"}
    /\ timers < MaxPendingTimers
    /\ IF Truthy(gCode) THEN Copy ELSE UNCHANGED copyVars
    /\ UNCHANGED <<gen, data, pc, gcode, ret, currentDepth, previousDepth, currentRadius,
                   radii, idx, currentThreadZ, loc>>
    /\ UNCHANGED formVars
    /\ UNCHANGED aiVars

\* () => setCopied(false): the oldest pending timer fires (the delays are
\* equal, so the timers fire in the order they were set).
CopiedTimeout ==
    /\ pc \in {"idle", "done"}
    /\ timers > 0
    /\ copied' = FALSE
    /\ timers' = timers - 1
    /\ UNCHANGED clipboard
    /\ UNCHANGED <<gen, data, pc, gcode, ret, currentDepth, previousDepth, currentRadius,
                   radii, idx, currentThreadZ, loc>>
    /\ UNCHANGED formVars
    /\ UNCHANGED aiVars

Next ==
    \/ pc = "idle" /\ \E values \in PocketValues : PocketSubmit(values)
    \/ PocketInvalidSubmit
    \/ PocketDepthPass
    \/ PocketCircle
    \/ PocketFinalPass
    \/ PocketFooter
    \/ pc = "idle" /\ \E values \in ThreadValues : ThreadSubmit(values)
    \/ ThreadInvalidSubmit
    \/ ThreadPassStart
    \/ ThreadHelix
    \/ ThreadPassEnd
    \/ ThreadFooter
    \/ pc = "idle" /\ \E values \in DrillValues : DrillSubmit(values)
    \/ pc = "idle" /\ \E input \in ActionInputs : ActionCall(input)
    \/ \E output \in FlowOutputs : FlowResolve(output)
    \/ \E e \in Thrown : FlowThrow(e)
    \/ ActionReturn
    \/ ActionCatch
    \/ handleCopy
    \/ CopiedTimeout

Spec == Init /\ [][Next]_vars

\* generateGCode is synchronous: once onSubmit has called it, its statements
\* run to completion before any other event is handled.
GeneratorStep ==
    \/ PocketDepthPass
    \/ PocketCircle
    \/ PocketFinalPass
    \/ PocketFooter
    \/ ThreadPassStart
    \/ ThreadHelix
    \/ ThreadPassEnd
    \/ ThreadFooter

FairSpec == Spec /\ WF_vars(GeneratorStep)


\* ====================================================== reading the program
HasCode(l, c) == \E i \in DOMAIN l.codes : l.codes[i] = c

HasArg(l, w) == \E i \in DOMAIN l.args : l.args[i].w = w

ArgOf(l, w) == l.args[CHOOSE i \in DOMAIN l.args : l.args[i].w = w]

CeilDiv(a, b) == (a + b - 1) \div b

IsCompOn(l) == HasCode(l, "G41") \/ HasCode(l, "G42")

IsCircular(l) == HasCode(l, "G02") \/ HasCode(l, "G03")

MaxOf(S) == CHOOSE x \in S : \A y \in S : y <= x

MinOf(S) == CHOOSE x \in S : \A y \in S : x <= y

Returned == pc = "done" /\ ret = "program"

PocketReturned == gen = "pocket" /\ Returned

\* Indices of the '(Pass at Z-...)' lines of the pocket program.
PocketPassIdx == {i \in DOMAIN gcode : gcode[i].kind = "comment" /\ gcode[i].cmt = "Pass at"}

\* Depth printed in the pass comment at line i, and the depth printed in the
\* rapid 'G00 Z-<previousDepth>' that follows it, in ten-thousandths.
PassDepthAt(i) == ArgOf(gcode[i], "Z").n

PassPrevDepthAt(i) ==
    IF i + 1 \in DOMAIN gcode /\ HasCode(gcode[i + 1], "G00") /\ HasArg(gcode[i + 1], "Z")
    THEN ArgOf(gcode[i + 1], "Z").n
    ELSE PassDepthAt(i)

RECURSIVE SumIncrements(_)
SumIncrements(S) ==
    IF S = {} THEN 0
    ELSE LET i == CHOOSE x \in S : TRUE
         IN (PassDepthAt(i) - PassPrevDepthAt(i)) + SumIncrements(S \ {i})

\* One rounding error of the arithmetic is far below this tolerance (2^-40).
Eps == Num(FALSE, BigPow2((LimbBits * FracLimbs) \div 2))

Near(a, b) == FLeq(Abs(FSub(a, b)), Eps)

\* ------------------------------------------------------------------- C1
\* C1: depth coverage of the pocket generator.  In every returned pocket
\* program the number of '(Pass at Z-...)' blocks is ceil(D / s_z) for the
\* entered D = totalDepthOfCut and s_z = depthPerPass, the per-pass depth
\* increments (pass depth minus the depth the pass starts from, as printed)
\* sum to D, and the last pass is at depth D exactly.
\* The accumulated currentDepth is a sum of rounded doubles: for D = 0.8,
\* s_z = 0.1 it is 0.7999999999999999 after eight passes, still < D, and a
\* ninth block is emitted; for D = 0.9, s_z = 0.3 a fourth one.
C1_DepthCoverage ==
    PocketReturned =>
        /\ Cardinality(PocketPassIdx)
              = CeilDiv(ToFixed4(data.totalDepthOfCut), ToFixed4(data.depthPerPass))
        /\ SumIncrements(PocketPassIdx) = ToFixed4(data.totalDepthOfCut)
        /\ PocketPassIdx # {}
        /\ PassDepthAt(MaxOf(PocketPassIdx)) = ToFixed4(data.totalDepthOfCut)
        /\ currentDepth = data.totalDepthOfCut

\* ------------------------------------------------------------------- C2
IsDepthPassStep == gen = "pocket" /\ pc = "depthLoop" /\ pc' = "stepoverLoop"

C2_StateBound ==
    gen = "pocket" =>
        /\ FLeq(Zero, currentDepth)
        /\ FLeq(currentDepth, data.totalDepthOfCut)
        /\ FLeq(previousDepth, currentDepth)

C2_StepExact ==
    IsDepthPassStep =>
        LET inc == FSub(currentDepth', currentDepth)
            remaining == FSub(data.totalDepthOfCut, currentDepth)
        IN /\ FLess(currentDepth, currentDepth')
           /\ Positive(inc)
           /\ FLeq(inc, data.depthPerPass)
           /\ previousDepth' = currentDepth
           /\ (FLess(currentDepth', data.totalDepthOfCut) => inc = data.depthPerPass)
           /\ (~FLess(currentDepth', data.totalDepthOfCut) => inc = remaining)

C2_StepRounded ==
    IsDepthPassStep =>
        LET inc == FSub(currentDepth', currentDepth)
            remaining == FSub(data.totalDepthOfCut, currentDepth)
        IN /\ FLess(currentDepth, currentDepth')
           /\ Positive(inc)
           /\ FLeq(inc, FAdd(data.depthPerPass, Eps))
           /\ previousDepth' = currentDepth
           /\ (FLess(currentDepth', data.totalDepthOfCut) => Near(inc, data.depthPerPass))
           /\ (~FLess(currentDepth', data.totalDepthOfCut) =>
                  currentDepth' = data.totalDepthOfCut /\ inc = remaining)

\* C2 as stated: bounded depth increments.  In every state of the pocket
\* depth loop 0 <= currentDepth <= totalDepthOfCut, and every depth pass
\* strictly increases currentDepth by an increment that is > 0 and <=
\* depthPerPass, equal to depthPerPass unless it is the final pass, whose
\* increment is the remaining depth.
C2_BoundedIncrements == [](C2_StateBound) /\ [][C2_StepExact]_vars

\* C2 as amended: the same, where an increment that is not the final one
\* equals depthPerPass up to the rounding of the one addition that produced
\* it (0.6 + 0.3 is the double 0.8999999999999999, an increment of
\* 0.29999999999999993), and is <= depthPerPass up to that rounding.  The
\* bounds, the strict increase and the final increment are exact.
C2_BoundedIncrementsRounded == [](C2_StateBound) /\ [][C2_StepRounded]_vars

\* A pass that is not the final one and whose increment is not the double
\* depthPerPass but within the rounding of it (0.6 + 0.3).
C2_Witness ==
    /\ gen = "pocket"
    /\ pc = "stepoverLoop"
    /\ FLess(currentDepth, data.totalDepthOfCut)
    /\ Positive(previousDepth)
    /\ FSub(currentDepth, previousDepth) # data.depthPerPass
    /\ Near(FSub(currentDepth, previousDepth), data.depthPerPass)

\* ------------------------------------------------------------------- C3
\* C3: geometry guard of the pocket generator.  With cutterDiameter >=
\* circleDiameter the call returns the error string and no line (header,
\* motion, footer) is emitted; with cutterDiameter < circleDiameter the
\* error string is never returned.
C3_GeometryGuard ==
    (gen = "pocket") =>
        /\ (FLeq(data.circleDiameter, data.cutterDiameter) =>
                pc = "done" /\ ret = "error" /\ gcode = <<>>)
        /\ (FLess(data.cutterDiameter, data.circleDiameter) => ret # "error")

\* The boundary case cutterDiameter = circleDiameter returned the error.
C3_Witness ==
    /\ gen = "pocket"
    /\ data.cutterDiameter = data.circleDiameter
    /\ ret = "error"

\* ------------------------------------------------------------------- C4
ThreadMotionIdx ==
    {i \in DOMAIN gcode : HasCode(gcode[i], "G01") \/ IsCircular(gcode[i])}

ThreadPassIdx == {i \in DOMAIN gcode : gcode[i].kind = "comment" /\ gcode[i].cmt = "Pass"}

\* C4: geometry guard of the thread-mill generator.  With threadMillDiameter
\* >= majorDiameter (pathRadius <= 0) the call returns the GeometryInfeasible
\* failure and emits no motion line (G01/G02/G03) and no pass block.
C4_ThreadGeometryGuard ==
    (gen = "thread" /\ FLeq(data.majorDiameter, data.threadMillDiameter)) =>
        /\ pc = "done"
        /\ ret = "error"
        /\ ThreadMotionIdx = {}
        /\ ThreadPassIdx = {}

\* ------------------------------------------------------------------- C5
\* Index of the compensation-on line that opens the pass line i belongs to.
LastCompOnBefore(i) == MaxOf({j \in 1..i : IsCompOn(gcode[j])})

\* C5: zero-radius edge case of the thread-mill generator.  When pathRadius
\* is zero or negative no circular/helical move is emitted whose center
\* offset I is zero or whose start radius (the X of the compensation-on move
\* of its pass) is zero.
C5_NoDegenerateCircle ==
    (gen = "thread" /\ FLeq(loc.pathRadius, Zero)) =>
        \A i \in DOMAIN gcode :
            IsCircular(gcode[i]) =>
                /\ ArgOf(gcode[i], "I").n # 0
                /\ ArgOf(gcode[LastCompOnBefore(i)], "X").n # 0

\* ------------------------------------------------------------------- C6
CompOnIdx == {i \in DOMAIN gcode : IsCompOn(gcode[i])}

CompOffIdx == {i \in DOMAIN gcode : HasCode(gcode[i], "G40") /\ ~HasCode(gcode[i], "G80")}

\* Compensation-on lines whose pass block is complete (its G40 is emitted).
ClosedPassIdx == {i \in CompOnIdx : \E j \in CompOffIdx : j > i}

PassEnd(i) == MinOf({j \in CompOffIdx : j > i})

PassBody(i) == SubSeq(gcode, i + 1, PassEnd(i) - 1)

IsMoveToStart(l) == HasCode(l, "G01") /\ HasArg(l, "X")

\* Radii of the full circles of the pass opened at line i (their I words)
\* and the X targets of the moves to the start of each circle, as printed,
\* in ten-thousandths.
CircleRadii(i) ==
    LET c == SelectSeq(PassBody(i), IsCircular)
    IN [k \in 1..Len(c) |-> ArgOf(c[k], "I").n]

CircleStarts(i) ==
    LET c == SelectSeq(PassBody(i), IsMoveToStart)
    IN [k \in 1..Len(c) |-> ArgOf(c[k], "X").n]

\* r_p = circleDiameter/2 - cutterDiameter/2 of the entered diameters, in
\* ten-thousandths (the diameters are drawn from multiples of 0.5).
NetPathRadius(d) == (ToFixed4(d.circleDiameter) - ToFixed4(d.cutterDiameter)) \div 2

\* C6: boundary clamp of the stepover accumulation.  In every depth pass the
\* full circles are at radii s, 2s, 3s, ... for exactly the multiples of s
\* that are strictly less than r_p, followed by exactly one circle at r_p;
\* the radii strictly increase, r_p occurs once, there are ceil(r_p / s)
\* circles, and every depth pass has the same radial sequence.
\* The accumulated currentRadius is a sum of rounded doubles: for cutter 1.0,
\* circle 3.0, stepover 0.1 it is 0.9999999999999999 after nine additions,
\* still < r_p = 1, so a circle printed as 1.0000 is emitted by the loop and
\* the final circle at r_p = 1.0000 follows it: 11 circles, r_p twice.
C6_StepoverClamp ==
    gen = "pocket" =>
        \A i \in ClosedPassIdx :
            LET R == CircleRadii(i)
                rp == NetPathRadius(data)
                s == ToFixed4(data.stepover)
            IN /\ Len(R) = CeilDiv(rp, s)
               /\ Len(R) >= 1
               /\ R[Len(R)] = rp
               /\ \A k \in 1..(Len(R) - 1) : R[k] = k * s /\ R[k] < rp /\ R[k] < R[k + 1]
               /\ \A m \in 1..(rp \div s) : m * s < rp => (m < Len(R) /\ R[m] = m * s)
               /\ Cardinality({k \in 1..Len(R) : R[k] = rp}) = 1
               /\ CircleStarts(i) = R
               /\ \A j \in ClosedPassIdx : CircleRadii(j) = R

\* ------------------------------------------------------------------- C7
ScenarioB ==
    /\ gen = "pocket"
    /\ data.cutterDiameter = HalfInch
    /\ data.circleDiameter = FromDec(30000)
    /\ data.stepover = FromDec(2000)

\* C7 as stated: Scenario B.  Cutter 0.5, circle 3.0, stepover 0.2: the net
\* path radius is 1.0 and every depth pass has exactly the 5 circles 0.2000,
\* 0.4000, 0.6000, 0.8000, 1.0000 (as printed).
C7_ScenarioB ==
    ScenarioB =>
        /\ finalPathRadius(data) = Inch
        /\ \A i \in ClosedPassIdx :
              /\ CircleRadii(i) = <<2000, 4000, 6000, 8000, 10000>>
              /\ CircleStarts(i) = <<2000, 4000, 6000, 8000, 10000>>

\* C7 as amended: for cutter 0.5, circle 3.0, stepover 0.2 the net path
\* radius is 3.0/2 - 0.5/2 = 1.25 and every depth pass has exactly the 7
\* circles 0.2000, 0.4000, 0.6000, 0.8000, 1.0000, 1.2000, 1.2500 (the last
\* clamped exactly to 1.25).
C7_ScenarioBActual ==
    ScenarioB =>
        /\ finalPathRadius(data) = FromDec(12500)
        /\ \A i \in ClosedPassIdx :
              /\ CircleRadii(i) = <<2000, 4000, 6000, 8000, 10000, 12000, 12500>>
              /\ CircleStarts(i) = <<2000, 4000, 6000, 8000, 10000, 12000, 12500>>

\* Scenario B with the default depths (0.5 / 0.25) has been returned.
C7_Witness ==
    /\ ScenarioB
    /\ PocketReturned
    /\ data.totalDepthOfCut = HalfInch
    /\ data.depthPerPass = Quarter
    /\ Cardinality(ClosedPassIdx) = 2

\* ------------------------------------------------------------------- C8
IsThreadPass(l) == l.kind = "comment" /\ l.cmt = "Pass"

\* The numbers of the '(Pass k)' comments and the X words of the
\* compensation-on moves, in program order.
ThreadPassNumbers ==
    LET c == SelectSeq(gcode, IsThreadPass)
    IN [k \in 1..Len(c) |-> ArgOf(c[k], "Pass").n]

ThreadOnRadii ==
    LET c == SelectSeq(gcode, IsCompOn)
    IN [k \in 1..Len(c) |-> ArgOf(c[k], "X")]

\* C8: radial monotonicity of the fixed-pass-count policy.  The pass blocks
\* are '(Pass 1)'..'(Pass n)' in that order (exactly n = radialPasses of them
\* in a returned program), the radius of the k-th compensation-on move is
\* radii[k] printed with four decimals, and these radii are >= 0 and
\* non-decreasing, as doubles and as printed.
C8_RadialMonotonicity ==
    gen = "thread" =>
        /\ ThreadPassNumbers = [k \in 1..Len(ThreadPassNumbers) |-> k]
        /\ Len(ThreadOnRadii) = Len(ThreadPassNumbers)
        /\ Len(ThreadOnRadii) <= Len(radii)
        /\ \A k \in 1..Len(ThreadOnRadii) :
              /\ ThreadOnRadii[k].sgn = ""
              /\ ThreadOnRadii[k].n >= 0
              /\ ThreadOnRadii[k].n = ToFixed4(radii[k])
              /\ ~radii[k].neg
        /\ \A k \in 1..(Len(ThreadOnRadii) - 1) :
              /\ FLeq(radii[k], radii[k + 1])
              /\ ThreadOnRadii[k].n <= ThreadOnRadii[k + 1].n
        /\ (pc = "done" => Len(ThreadPassNumbers) = data.radialPasses)

\* A returned program of at least 3 passes whose candidates were generated
\* in an order different from the emitted one.
C8_Witness ==
    /\ gen = "thread"
    /\ pc = "done"
    /\ data.radialPasses >= 3
    /\ Candidates(data) # radii
    /\ ThreadOnRadii[1].n < ThreadOnRadii[3].n

\* ------------------------------------------------------------------- C9
\* Occurrences of the G/M word c in the whole program.
CountWord(c) ==
    Cardinality({p \in (DOMAIN gcode) \X (1..5) :
                    p[2] \in DOMAIN gcode[p[1]].codes /\ gcode[p[1]].codes[p[2]] = c})

\* The header line that resets the modes (G90 G17 .. G40 G80).
IsModeReset(l) == HasCode(l, "G17") /\ HasCode(l, "G40") /\ HasCode(l, "G80")

CountModeReset == Cardinality({i \in DOMAIN gcode : IsModeReset(gcode[i])})

\* C9 as stated: counting every line, the header mode-reset line included,
\* the number of G40 words equals the number of G41/G42 words.
C9_BalanceWithHeader ==
    Returned => CountWord("G40") = CountWord("G41") + CountWord("G42")

\* C9 as amended: the header mode-reset line carries one G40 of its own;
\* apart from it the number of G40 words equals the number of G41/G42
\* words, so the whole program has exactly one G40 more than G41/G42.
C9_BalanceAfterHeader ==
    Returned =>
        /\ CountModeReset = 1
        /\ CountWord("G40") - CountModeReset = CountWord("G41") + CountWord("G42")
        /\ Cardinality(CompOffIdx) = Cardinality(CompOnIdx)

\* A returned pocket program with at least two compensation-on moves.
C9_Witness ==
    /\ PocketReturned
    /\ CountWord("G41") + CountWord("G42") >= 2

\* ------------------------------------------------------------------ C10
\* Compensation state when line i is read (off at the top of the program).
CompActiveBefore(i) ==
    LET S == {j \in 1..(i - 1) : IsCompOn(gcode[j]) \/ HasCode(gcode[j], "G40")}
    IN S # {} /\ IsCompOn(gcode[MaxOf(S)])

G00Idx == {i \in DOMAIN gcode : HasCode(gcode[i], "G00")}

\* C10: compensation pairing over the line sequence.  No G41/G42 line is
\* read while compensation is on; in a returned program every G41/G42 line
\* is followed by a G40 line before M30, and compensation is off at the
\* footer retract (the last G00), at M05 and at M30.
C10_Pairing ==
    /\ \A i \in CompOnIdx : ~CompActiveBefore(i)
    /\ Returned =>
          /\ \A i \in CompOnIdx :
                \E j \in DOMAIN gcode :
                    /\ j > i
                    /\ HasCode(gcode[j], "G40")
                    /\ \E m \in DOMAIN gcode : m > j /\ HasCode(gcode[m], "M30")
          /\ \A i \in DOMAIN gcode :
                (HasCode(gcode[i], "M05") \/ HasCode(gcode[i], "M30") \/ i = MaxOf(G00Idx))
                    => (~CompActiveBefore(i) /\ ~IsCompOn(gcode[i]))

\* A returned thread-mill program with at least two passes.
C10_Witness ==
    /\ gen = "thread"
    /\ Returned
    /\ Cardinality(CompOnIdx) >= 2

\* ------------------------------------------------------------------ C11
HasWord(c) == \E i \in DOMAIN gcode : HasCode(gcode[i], c)

CircularIdx == {i \in DOMAIN gcode : IsCircular(gcode[i])}

\* Every compensation-on line uses side comp and every circular/helical
\* move uses sense dir.
UsesOnly(comp, dir) ==
    /\ \A i \in CompOnIdx : HasCode(gcode[i], comp)
    /\ \A i \in CircularIdx : HasCode(gcode[i], dir)

HelixZ(i) ==
    LET c == SelectSeq(PassBody(i), IsCircular)
    IN [k \in 1..Len(c) |-> ArgOf(c[k], "Z").n]

RECURSIVE SumSeq(_)
SumSeq(s) == IF Len(s) = 0 THEN 0 ELSE s[Len(s)] + SumSeq(SubSeq(s, 1, Len(s) - 1))

\* C12: thread helix partition.  In every radial pass, with pitch = 1 /
\* threadsPerInch, exactly ceil(threadDepth / pitch) helical moves are
\* emitted, each axial increment is > 0 and <= pitch, every increment but
\* the last equals pitch, the last is the remaining depth, currentThreadZ
\* never exceeds threadDepth, and the increments sum to threadDepth.
\* The accumulated currentThreadZ is a sum of rounded doubles: with 20
\* threads per inch and depth 0.5 it is 0.49999999999999994 after ten moves
\* of 0.05, still < 0.5, and an eleventh helical move with the increment
\* 5.6e-17, printed Z0.0000, is emitted.
C12_HelixPartition ==
    gen = "thread" =>
        /\ FLeq(currentThreadZ, data.threadDepth)
        /\ \A i \in ClosedPassIdx :
              LET Z == HelixZ(i)
                  depth == ToFixed4(data.threadDepth)
                  n == CeilDiv(depth * data.threadsPerInch, 10000)
              IN /\ Len(Z) = n
                 /\ \A k \in 1..Len(Z) : Z[k] > 0 /\ Z[k] * data.threadsPerInch <= 10000
                 /\ \A k \in 1..(Len(Z) - 1) : Z[k] * data.threadsPerInch = 10000
                 /\ SumSeq(Z) = depth

\* ------------------------------------------------------------------ C13
\* The step and the candidate radii of the fixed pass-count policy as the
\* sentence gives them: min(|r_p / n|, s_max) and r_p - i * step.
NaiveStep(d) == Min(Abs(FDivInt(pathRadius(d), passes(d))), maxStep)

NaiveCandidates(d) ==
    {ToFixed4(Abs(FSub(pathRadius(d), FMulInt(i, NaiveStep(d))))) : i \in 0..(passes(d) - 1)}

\* C13: fixed pass-count step formula.  The per-pass radial step is
\* min(|r_p / n|, 1) with r_p = majorDiameter/2 - threadMillDiameter/2, and
\* the radii of the n passes of a returned program are r_p - i * step for
\* i = 0..n-1.
\* The code divides the tool radius, not r_p, by n (radialCutAmount =
\* toolRadius): for thread mill 0.4, major 0.5, 3 passes the step is 0.2/3 =
\* 0.0667, not 0.05/3 = 0.0167, and the passes are at 0.0167, 0.0500 and
\* 0.0833, the last one beyond r_p = 0.05.
C13_StepFormula ==
    gen = "thread" =>
        /\ loc.radialStep = NaiveStep(data)
        /\ (Returned => {ThreadOnRadii[k].n : k \in 1..Len(ThreadOnRadii)} = NaiveCandidates(data))

\* ------------------------------------------------------------------ C14
WordIdx(c) == {i \in DOMAIN gcode : HasCode(gcode[i], c)}

\* Lines that cut: linear and circular feed moves and the peck cycle.
FeedIdx == WordIdx("G01") \cup WordIdx("G02") \cup WordIdx("G03") \cup WordIdx("G83")

\* Words that belong to the header or to the footer only.
IsFrameLine(l) ==
    HasCode(l, "M06") \/ HasCode(l, "M03") \/ HasCode(l, "M05") \/ HasCode(l, "G28")
        \/ HasCode(l, "M30") \/ HasCode(l, "G43") \/ HasCode(l, "G54")

HeaderOf == IF gen = "pocket" THEN PocketHeader(data)
            ELSE IF gen = "thread" THEN ThreadHeader(data) ELSE <<>>

FooterOf == IF gen = "pocket" THEN PocketFooterLines(data)
            ELSE IF gen = "thread" THEN ThreadFooterLines(data) ELSE <<>>

\* C14: program structure and ordering.  Every returned program is header,
\* then body, then footer (no header or footer word in the body); the tool
\* change (T.. M06) and the spindle start (M03) occur once and precede the
\* first feed move (G01/G02/G03/G83); the spindle stop (M05) occurs once and
\* follows the last feed move; M30 occurs exactly once, on the last line.
C14_Structure ==
    Returned =>
        /\ Cardinality(WordIdx("M06")) = 1
        /\ Cardinality(WordIdx("M03")) = 1
        /\ Cardinality(WordIdx("M05")) = 1
        /\ FeedIdx # {}
        /\ \A i \in WordIdx("M06") : HasArg(gcode[i], "T") /\ i < MinOf(FeedIdx)
        /\ \A i \in WordIdx("M03") : i < MinOf(FeedIdx)
        /\ \A i \in WordIdx("M06") : \A j \in WordIdx("M03") : i < j
        /\ \A i \in WordIdx("M05") : i > MaxOf(FeedIdx)
        /\ WordIdx("M30") = {Len(gcode)}
        /\ CountWord("M30") = 1
        /\ Len(gcode) >= Len(HeaderOf) + Len(FooterOf)
        /\ SubSeq(gcode, 1, Len(HeaderOf)) = HeaderOf
        /\ SubSeq(gcode, Len(gcode) - Len(FooterOf) + 1, Len(gcode)) = FooterOf
        /\ \A i \in (Len(HeaderOf) + 1)..(Len(gcode) - Len(FooterOf)) :
              gen # "drill" => ~IsFrameLine(gcode[i])

\* A returned pocket program with a body of at least two depth passes.
C14_Witness ==
    /\ PocketReturned
    /\ Cardinality(PocketPassIdx) >= 2
    /\ WordIdx("M30") = {Len(gcode)}

\* ------------------------------------------------------------------ C15
\* The footer retract: the last G00 line of the program.
RetractIdx == MaxOf(G00Idx)

\* A line 'G00 Z<rPlane>' that renders the rPlane the user entered.
IsRetractToRPlane(l) ==
    /\ HasCode(l, "G00")
    /\ HasArg(l, "Z")
    /\ ArgOf(l, "Z").fmt = "toString"
    /\ ArgOf(l, "Z").v = data.rPlane

HomeZIdx == {i \in WordIdx("G28") : HasArg(gcode[i], "Z")}

HomeXYIdx == {i \in WordIdx("G28") : HasArg(gcode[i], "X") /\ HasArg(gcode[i], "Y")}

\* C15: footer order.  In every returned program: retract to the user's
\* rPlane (G00 Z<rPlane>), then spindle stop (M05), then coolant-off (M09,
\* present exactly when M08 was emitted), then G91 G28 Z0, then G91 G28 X0
\* Y0, then M30.
\* The drilling generator retracts with the literal 'G00 Z1.0' whatever the
\* rPlane, and writes M09 before M05.
C15_FooterOrder ==
    Returned =>
        /\ G00Idx # {}
        /\ IsRetractToRPlane(gcode[RetractIdx])
        /\ Cardinality(WordIdx("M05")) = 1
        /\ Cardinality(HomeZIdx) = 1
        /\ Cardinality(HomeXYIdx) = 1
        /\ (WordIdx("M09") # {}) <=> (WordIdx("M08") # {})
        /\ Cardinality(WordIdx("M09")) <= 1
        /\ \A m \in WordIdx("M05") :
              /\ RetractIdx < m
              /\ \A c \in WordIdx("M09") : m < c
              /\ \A z \in HomeZIdx : m < z
        /\ \A c \in WordIdx("M09") : (\A k \in WordIdx("M08") : k < c) /\ (\A z \in HomeZIdx : c < z)
        /\ \A z \in HomeZIdx : \A x \in HomeXYIdx : z < x
        /\ \A x \in HomeXYIdx : x < Len(gcode)
        /\ HasCode(gcode[Len(gcode)], "M30")

\* ---------------------------------------------------------------------- C16
\* What the claim calls a submit that passes the schema, read off the record
\* the generator was called with.
ValidPocket(d) ==
    /\ \A f \in {"cutterDiameter", "circleDiameter", "feed", "totalDepthOfCut",
                 "depthPerPass", "stepover", "rPlane"} : FLess(Zero, d[f])
    /\ d.speed >= 1 /\ d.toolNumber >= 1
    /\ ~FLess(d.totalDepthOfCut, d.depthPerPass)

ValidThread(d) ==
    /\ \A f \in {"threadMillDiameter", "minorDiameter", "majorDiameter", "threadDepth",
                 "feed", "rPlane"} : FLess(Zero, d[f])
    /\ d.threadsPerInch >= 1 /\ d.speed >= 1 /\ d.toolNumber >= 1
    /\ d.radialPasses \in 1..5
    /\ FLess(d.minorDiameter, d.majorDiameter)

GeneratorCalledWithValid ==
    /\ gen = "pocket" => ValidPocket(data)
    /\ gen = "thread" => ValidThread(data)

\* A step that raises the form errors is a rejected submit.
IsRejectedSubmit == ~formErrors /\ formErrors'

RejectedLeavesAll ==
    IsRejectedSubmit =>
        /\ gCode' = gCode
        /\ gen' = gen /\ data' = data /\ pc' = pc /\ gcode' = gcode /\ ret' = ret

DisplayReplacedByValid ==
    gCode' # gCode =>
        /\ ~formErrors'
        /\ gen' \in {"pocket", "thread"} => (gen' = "pocket" /\ ValidPocket(data'))
                                             \/ (gen' = "thread" /\ ValidThread(data'))

\* C16: in the pocket and thread-mill forms the generator is only ever called
\* with values that pass the schema (numeric fields positive, radialPasses in
\* 1..5, major > minor, total depth >= depth per pass), the displayed gCode is
\* only replaced by such a submit, and a submit that fails validation changes
\* neither the displayed gCode nor anything of the generator.
C16_ValidationBoundary ==
    /\ []GeneratorCalledWithValid
    /\ [][RejectedLeavesAll /\ DisplayReplacedByValid]_vars

\* A program is displayed and a later submit has been rejected.
C16_Witness ==
    /\ formErrors
    /\ pc = "done"
    /\ gen \in {"pocket", "thread"}
    /\ gCode.ret = "program"

\* ---------------------------------------------------------------------- C17
Prefix == "Failed to generate G-code. "

IsSuccessResult == actionResult.data = Some(loc.result) /\ actionResult.error = Null

IsFailureResult ==
    /\ actionResult.data = Null
    /\ actionResult.error = Some(Prefix \o (IF loc.e.isError THEN loc.e.message
                                            ELSE "An unexpected error occurred."))

\* C17: a call of generateGCodeAction invokes the flow exactly once and
\* resolves to {data: result, error: null} when the flow succeeded and to
\* {data: null, error: 'Failed to generate G-code. ' + message} when it threw;
\* data and error are never both null and never both set, and nothing is
\* resolved before the flow has settled.
C17_DelegatedResult ==
    gen = "ai" =>
        /\ flowCalls = 1
        /\ pc \in {"awaitFlow", "return", "catch"} => actionResult = NoResult
        /\ pc = "settled" =>
            /\ actionResult # NoResult
            /\ "result" \in DOMAIN loc => IsSuccessResult
            /\ "e" \in DOMAIN loc => IsFailureResult
            /\ (actionResult.data = Null) # (actionResult.error = Null)

\* The flow threw a value that is not an Error and the action has resolved.
C17_Witness ==
    /\ gen = "ai"
    /\ pc = "settled"
    /\ "e" \in DOMAIN loc
    /\ ~loc.e.isError
    /\ actionResult.error = Some("Failed to generate G-code. An unexpected error occurred.")

\* ---------------------------------------------------------------------- C18
Generators == {"pocket", "thread", "drill"}

InLoops == gen \in Generators /\ pc \in {"depthLoop", "stepoverLoop", "forEach", "helix"}

CompleteProgram ==
    /\ ret = "program"
    /\ Len(gcode) > 0
    /\ gcode[Len(gcode)] = Block(<<"M30">>, <<>>)
    /\ Cardinality(WordIdx("M30")) = 1
    /\ gCode = Shown("program", gcode)

GeometryError == gen = "pocket" /\ ret = "error" /\ gcode = <<>> /\ gCode = Shown("error", <<>>)

\* What a call has returned once it is over; nothing is returned before.
TotalOutcome ==
    /\ gen \in Generators /\ pc = "done" => CompleteProgram \/ GeometryError
    /\ InLoops => ret = "none"
    /\ gen \in Generators => pc \in {"depthLoop", "stepoverLoop", "forEach", "helix", "done"}

RadialMovesBefore(i) ==
    {j \in 1..(i - 1) : /\ ~IsCircular(gcode[j])
                        /\ HasArg(gcode[j], "X")
                        /\ ArgOf(gcode[j], "X").fmt = "fixed4"}

StartRadiusAt(i) == ArgOf(gcode[MaxOf(RadialMovesBefore(i))], "X").n

\* C19: in the programs of the pocket and thread-mill generators the printed
\* magnitude of I of every circular/helical move equals the printed X of the
\* move that brought the tool to the start of that arc, so that the arc is
\* centred on the feature centre; with several radial passes each helical
\* move carries its own pass's radius.
C19_CenterOffset ==
    (Returned /\ gen \in {"pocket", "thread"}) =>
        \A i \in CircularIdx :
            /\ RadialMovesBefore(i) # {}
            /\ ArgOf(gcode[i], "I").sgn = "-"
            /\ ArgOf(gcode[i], "I").n = StartRadiusAt(i)

\* ---------------------------------------------------------------------- C20
\* The nominal radial step limit divided by the pass count.
NominalOverPasses(d) == FDivInt(Abs(nominalRadialStep), passes(d))

\* C20: the magnitude of I written on every helical move of the thread-mill
\* generator is the nominal radial step limit (1) divided by the pass count,
\* whatever the net path radius and the pass's own radius are.
C20_IValueFormula ==
    gen = "thread" =>
        /\ loc.iValue = NominalOverPasses(data)
        /\ \A i \in CircularIdx :
               ArgOf(gcode[i], "I").n = ToFixed4(NominalOverPasses(data))

\* ---------------------------------------------------------------------- C21
\* C21: final boundary of the fixed pass-count policy.  With pathRadius > 0
\* the last (largest) pass radius of a returned thread program is the net
\* path radius majorDiameter/2 - threadMillDiameter/2 and no pass radius is
\* larger, as doubles and as printed.
C21_FinalBoundary ==
    (gen = "thread" /\ Returned /\ Positive(loc.pathRadius)) =>
        /\ Len(radii) >= 1
        /\ radii[Len(radii)] = loc.pathRadius
        /\ ThreadOnRadii[Len(ThreadOnRadii)].n = ToFixed4(loc.pathRadius)
        /\ \A k \in 1..Len(radii) :
              /\ FLeq(radii[k], loc.pathRadius)
              /\ ThreadOnRadii[k].n <= ToFixed4(loc.pathRadius)

\* ---------------------------------------------------------------------- C22
\* The lines from the end of the previous pass (or of the header) up to the
\* compensation-on line i: the positioning of the pass.
PrevCompOff(i) ==
    LET S == {j \in CompOffIdx : j < i} IN IF S = {} THEN 0 ELSE MaxOf(S)

Positioning(i) == SubSeq(gcode, PrevCompOff(i) + 1, i)

IsDepthMove(l) == HasArg(l, "Z") /\ (HasCode(l, "G00") \/ HasCode(l, "G01") \/ IsCircular(l))

\* Positioning (pocket: a move to the pass's depth; thread mill: the move out
\* to the pass's radius, which is the compensation-on line itself), then
\* compensation-on, then at least one circular/helical move, then
\* compensation-off.
PassOrdered(i) ==
    /\ gen = "pocket" => \E k \in DOMAIN Positioning(i) : IsDepthMove(Positioning(i)[k])
    /\ gen = "thread" => ArgOf(gcode[i], "X").fmt = "fixed4"
    /\ HasArg(gcode[i], "X")
    /\ \E k \in DOMAIN PassBody(i) : IsCircular(PassBody(i)[k])
    /\ \A k \in DOMAIN PassBody(i) : ~IsCompOn(PassBody(i)[k])

\* C22 as stated: every pass of the pocket and thread-mill programs is
\* positioning, compensation-on, one or more circular/helical moves,
\* compensation-off, and no G02/G03 line is emitted while compensation is off.
C22_PassOrder ==
    gen \in {"pocket", "thread"} =>
        /\ \A i \in ClosedPassIdx : PassOrdered(i)
        /\ \A i \in CircularIdx : CompActiveBefore(i)

\* A circular move of the pocket's helical entry: after the pass comment,
\* before the compensation-on line, about the ramp radius.
IsRampMove(i) ==
    /\ gen = "pocket"
    /\ ~CompActiveBefore(i)
    /\ \E c \in PocketPassIdx : c < i /\ c > PrevCompOff(i)
    /\ ArgOf(gcode[i], "I").n = ToFixed4(loc.rampRadius)
    /\ ~HasArg(gcode[i], "X")

\* C22 as the code has it: the same order, where the positioning of a pocket
\* pass contains its helical entry (a helical move and a flattening circle
\* about the ramp radius, compensation off); every other G02/G03 line is
\* emitted with compensation on.
C22_PassOrderActual ==
    gen \in {"pocket", "thread"} =>
        /\ \A i \in ClosedPassIdx : PassOrdered(i)
        /\ \A i \in CircularIdx : CompActiveBefore(i) \/ IsRampMove(i)
        /\ gen = "thread" => \A i \in CircularIdx : CompActiveBefore(i)

\* A returned pocket program whose entry moves are circular with the
\* compensation off, and whose passes also circle with it on.
C22_Witness ==
    /\ PocketReturned
    /\ \E i \in CircularIdx : IsRampMove(i)
    /\ \E i \in CircularIdx : CompActiveBefore(i)
    /\ Cardinality(ClosedPassIdx) >= 2

\* ---------------------------------------------------------------------- C23
\* The printed value of an address word with its literal sign, in
\* ten-thousandths.
Signed(a) == IF a.sgn = "-" THEN 0 - a.n ELSE a.n

\* The modal positioning state after reading line l in state inc.
ModeAfter(l, inc) ==
    IF HasCode(l, "G91") THEN TRUE ELSE IF HasCode(l, "G90") THEN FALSE ELSE inc

\* The programmed coordinate w after line l read in mode inc from v.  A full
\* circle written without the word leaves it alone; a G28 reference return
\* is not a move of the work coordinate.
CoordAfter(l, w, inc, v) ==
    IF l.kind # "block" \/ HasCode(l, "G28") \/ ~HasArg(l, w) THEN v
    ELSE IF inc THEN v + Signed(ArgOf(l, w)) ELSE Signed(ArgOf(l, w))

\* The programmed coordinate w after each line of the program, starting
\* from v with the mode inc.
RECURSIVE TrackFrom(_, _, _, _)
TrackFrom(w, i, inc, v) ==
    IF i > Len(gcode) THEN <<>>
    ELSE LET ninc == ModeAfter(gcode[i], inc)
             nv == CoordAfter(gcode[i], w, ninc, v)
         IN <<nv>> \o TrackFrom(w, i + 1, ninc, nv)

XTrack == TrackFrom("X", 1, FALSE, 0)

YWordsZero ==
    \A i \in DOMAIN gcode :
        (gcode[i].kind = "block" /\ HasArg(gcode[i], "Y")) => ArgOf(gcode[i], "Y").n = 0

\* C23 as stated: the programmed XY position after every G40 line and before
\* every G41/G42 line of a returned pocket or thread-mill program is the
\* centre.
C23_ReturnToCenter ==
    (gen \in {"pocket", "thread"} /\ Returned) =>
        \A xt \in {XTrack} :
            /\ YWordsZero
            /\ \A i \in CompOffIdx : xt[i] = 0
            /\ \A i \in CompOnIdx : i > 1 /\ xt[i - 1] = 0

\* C23 as the code has it: after every G40 line the position is the centre;
\* the thread-mill compensation-on move starts at the centre and ends at the
\* pass radius; the pocket compensation-on move ends at the centre and
\* starts where the helical entry ended, at X = rampRadius.
C23_ReturnToCenterActual ==
    (gen \in {"pocket", "thread"} /\ Returned) =>
        \A xt \in {XTrack} :
            /\ YWordsZero
            /\ \A i \in CompOffIdx : xt[i] = 0
            /\ \A i \in CompOnIdx :
                  /\ i > 1
                  /\ gen = "thread" => xt[i - 1] = 0 /\ xt[i] = ArgOf(gcode[i], "X").n
                  /\ gen = "pocket" => xt[i - 1] = ToFixed4(loc.rampRadius) /\ xt[i] = 0

\* A returned two-pass thread program with a positive radius, or a returned
\* pocket program whose compensation-on move starts off centre.
C23_Witness ==
    /\ Returned
    /\ Cardinality(CompOffIdx) >= 2
    /\ \E xt \in {XTrack} :
          \/ gen = "thread" /\ \E i \in CompOnIdx : xt[i] > 0
          \/ gen = "pocket" /\ \E i \in CompOnIdx : xt[i - 1] > 0

\* ---------------------------------------------------------------------- C24
\* The programmed Z after each line; meaningful from the absolute plunge
\* 'G01 Z<zBottom>' of the thread-mill header onward.
ZTrack == TrackFrom("Z", 1, FALSE, 0)

\* C24: thread-mill pass start depth.  Every radial pass begins its
\* compensation-on move at Z = -threadDepth and ends at Z = 0, and Z never
\* rises above 0 during the body.
C24_PassStartDepth ==
    (gen = "thread" /\ Returned) =>
        \A zt \in {ZTrack} :
            \A i \in CompOnIdx :
                /\ zt[i] = ToFixed4(zBottom(data))
                /\ zt[PassEnd(i)] = 0
                /\ \A j \in i..PassEnd(i) : zt[j] <= 0

\* The first pass alone starts at Z = -threadDepth.
C24_FirstPassStartDepth ==
    (gen = "thread" /\ Returned /\ CompOnIdx # {}) =>
        \A zt \in {ZTrack} : zt[MinOf(CompOnIdx)] = ToFixed4(zBottom(data))

\* ---------------------------------------------------------------------- C25
PositionWords == {"X", "Y", "Z", "I", "J", "R", "Q"}

BlockArgs == {a \in UNION {{l.args[k] : k \in DOMAIN l.args} :
                              l \in {gcode[i] : i \in {j \in DOMAIN gcode : gcode[j].kind = "block"}}} : TRUE}

\* A value printed as digits only, without a decimal point.
IsBareInteger(a) == a.fmt = "int" \/ (a.fmt = "toString" /\ IsInteger(a.v))

FeedRuleHolds(a) == a.fmt = (IF IsInteger(a.v) THEN "toString." ELSE "toString")

\* C25: numeric formatting.  Every position or depth word (X, Y, Z, I, J, R,
\* Q, the Z of the safe-plane moves included) of an emitted program is
\* rendered with exactly four decimals, every feed by the integer-versus-
\* decimal rule, and no coordinate is a bare integer without decimal point.
C25_NumberFormat ==
    \A a \in BlockArgs :
        /\ a.w \in PositionWords => a.fmt = "fixed4" /\ ~IsBareInteger(a)
        /\ a.w = "F" => FeedRuleHolds(a)

\* The part of C25 about bare integers, outside the G28 reference returns:
\* no move of a program prints a coordinate without a decimal point.
C25_NoBareIntegerMove ==
    \A i \in DOMAIN gcode :
        (gcode[i].kind = "block" /\ ~HasCode(gcode[i], "G28")) =>
            \A k \in DOMAIN gcode[i].args :
                gcode[i].args[k].w \in PositionWords => ~IsBareInteger(gcode[i].args[k])

\* ---------------------------------------------------------------------- C26
\* A feed move straight down: G01 with a Z word and no X word.
IsLinearPlunge(l) == HasCode(l, "G01") /\ HasArg(l, "Z") /\ ~HasArg(l, "X")

\* A helical move: a circular move that carries a Z word.
IsHelical(l) == IsCircular(l) /\ HasArg(l, "Z")

PocketContained ==
    /\ \A i \in DOMAIN gcode :
          gcode[i].kind = "block" =>
              /\ HasArg(gcode[i], "X") =>
                    /\ ArgOf(gcode[i], "X").sgn = ""
                    /\ ArgOf(gcode[i], "X").n \in 0..NetPathRadius(data)
              /\ HasArg(gcode[i], "I") =>
                    ArgOf(gcode[i], "I").n \in 0..NetPathRadius(data)
    /\ FLeq(rampRadius(data), FDivInt(finalPathRadius(data), 2))
    /\ FLeq(rampRadius(data), FDivInt(data.stepover, 2))

\* Only the last circle of the pass opened at line i is at r_p.
OnlyFinalReaches(i) ==
    \A r \in {CircleRadii(i)} :
        /\ Len(r) >= 1
        /\ r[Len(r)] = NetPathRadius(data)
        /\ \A k \in 1..(Len(r) - 1) : r[k] < NetPathRadius(data)

\* C27: pocket radial containment.  Every programmed X target and circle
\* radius is within 0 .. r_p, the ramp radius is at most r_p / 2 and
\* stepover / 2, and only the final circle of each depth pass reaches r_p.
C27_RadialContainment ==
    (gen = "pocket" /\ PocketPassIdx # {}) =>
        /\ PocketContained
        /\ \A i \in ClosedPassIdx : OnlyFinalReaches(i)

\* The containment half of C27 alone.
C27_ContainedOnly == (gen = "pocket" /\ PocketPassIdx # {}) => PocketContained

\* ---------------------------------------------------------------------- C28
\* The depth below the part surface a Z word programs, in ten-thousandths: a
\* Z word without the minus sign is at or above the surface.
DepthOfWord(a) == IF a.sgn = "-" THEN a.n ELSE 0

IsZMove(l) == l.kind = "block" /\ HasArg(l, "Z") /\ ~HasCode(l, "G28")

IsFeedMove(l) == HasCode(l, "G01") \/ IsCircular(l)

\* The programmed depth after each line of the (absolute) pocket program.
RECURSIVE DepthFrom(_, _)
DepthFrom(i, v) ==
    IF i > Len(gcode) THEN <<>>
    ELSE LET nv == IF IsZMove(gcode[i]) THEN DepthOfWord(ArgOf(gcode[i], "Z")) ELSE v
         IN <<nv>> \o DepthFrom(i + 1, nv)

DepthTrack == DepthFrom(1, 0)

\* The deepest depth a feed move before line i has reached.
FedDepthBefore(dt, i) ==
    MaxOf({0} \cup {dt[j] : j \in {k \in 1..(i - 1) : IsFeedMove(gcode[k])}})

\* C28: pocket axial safety.  In every returned pocket program every rapid
\* targets a depth no deeper than an
\* earlier feed move has reached (the rapid of a pass goes to the end depth
\* of the pass before, Z0 for the first); every move that increases the
\* depth is a feed move at half the programmed feed; the programmed depth
\* never exceeds totalDepthOfCut.
C28_AxialSafety ==
    PocketReturned =>
        \A dt \in {DepthTrack} :
            /\ \A i \in DOMAIN gcode :
                  /\ dt[i] <= ToFixed4(data.totalDepthOfCut)
                  /\ (IsZMove(gcode[i]) /\ HasCode(gcode[i], "G00")) =>
                        dt[i] <= FedDepthBefore(dt, i)
                  /\ (i > 1 /\ dt[i] > dt[i - 1]) =>
                        /\ IsFeedMove(gcode[i])
                        /\ HasArg(gcode[i], "F")
                        /\ ArgOf(gcode[i], "F").v = FDivInt(data.feed, 2)
            /\ \A i \in PocketPassIdx :
                  i < Len(gcode) =>
                      /\ HasCode(gcode[i + 1], "G00")
                      /\ DepthOfWord(ArgOf(gcode[i + 1], "Z")) = dt[i]

\* A returned pocket program whose second pass rapids to the depth the first
\* pass reached and then feeds deeper.
C28_Witness ==
    /\ PocketReturned
    /\ \E dt \in {DepthTrack} :
          \E i \in DOMAIN gcode :
              /\ IsZMove(gcode[i]) /\ HasCode(gcode[i], "G00") /\ dt[i] > 0
              /\ \E j \in DOMAIN gcode : j > i /\ dt[j] > dt[i]

\* ---------------------------------------------------------------------- C29
\* The positioning mode each line is read in (TRUE: incremental, G91), a
\* G90 or G91 on the line itself included.
RECURSIVE ModeFrom(_, _)
ModeFrom(i, inc) ==
    IF i > Len(gcode) THEN <<>>
    ELSE LET ninc == ModeAfter(gcode[i], inc)
         IN <<ninc>> \o ModeFrom(i + 1, ninc)

ModeTrack == ModeFrom(1, FALSE)

HasCoord(l) ==
    l.kind = "block" /\ \E k \in DOMAIN l.args : l.args[k].w \in PositionWords

\* The lines of a thread-mill pass, written as increments: the
\* compensation-on move, the helical moves, the compensation-off move.
IsThreadPassLine(l) ==
    gen = "thread" /\ (IsCompOn(l) \/ IsCircular(l)
                        \/ (HasCode(l, "G40") /\ ~HasCode(l, "G80")))

\* The line that switches the thread-mill body to increments.
BodyG91Idx == {i \in DOMAIN gcode : gcode[i].kind = "block" /\ gcode[i].codes = <<"G91">>}

\* C29: positioning-mode discipline.  In every returned program the mode is
\* G90 from the header's
\* explicit G90 on, at the footer retract and at M30; every line between the
\* thread-mill body's G91 and the following G90 is a pass line read as an
\* increment; no other coordinate line is read under G91 except the G28
\* reference returns.
C29_ModeDiscipline ==
    Returned =>
        \A mt \in {ModeTrack} :
            /\ \A i \in DOMAIN gcode :
                  /\ HasCoord(gcode[i]) => \E j \in 1..i : HasCode(gcode[j], "G90")
                  /\ (HasCode(gcode[i], "G00") \/ HasCode(gcode[i], "G0")
                         \/ HasCode(gcode[i], "M30")) => ~mt[i]
                  /\ (HasCoord(gcode[i]) /\ mt[i]) =>
                         HasCode(gcode[i], "G28") \/ IsThreadPassLine(gcode[i])
                  /\ IsThreadPassLine(gcode[i]) => mt[i]
            /\ \A g \in BodyG91Idx :
                  /\ gen = "thread"
                  /\ \A j \in g..Len(gcode) :
                        (\A k \in g..j : ~HasCode(gcode[k], "G90")) =>
                            /\ mt[j]
                            /\ j > g => (IsThreadPassLine(gcode[j]) \/ IsThreadPass(gcode[j]))

\* A returned two-pass thread-mill program: increments in the body, the
\* retract and M30 back under G90.
C29_Witness ==
    /\ gen = "thread"
    /\ Returned
    /\ Cardinality(CompOnIdx) >= 2
    /\ BodyG91Idx # {}
    /\ \E mt \in {ModeTrack} :
          /\ \E i \in CompOnIdx : mt[i]
          /\ ~mt[RetractIdx]
          /\ ~mt[Len(gcode)]

\* ---------------------------------------------------------------------- C30
\* C30: copy indicator, for every interleaving of clicks and timer firings.
\* While gCode is null nothing was copied; copied is true only if a copy
\* happened (the clipboard holds the displayed text); copied stays true as
\* long as the reset timer of the most recent click is pending.  (That
\* copied eventually returns to false is C30_EventualReset.)
C30_CopyIndicator ==
    /\ ~Truthy(gCode) => (~copied /\ timers = 0 /\ clipboard = NullCode)
    /\ copied => (Truthy(gCode) /\ clipboard = gCode)
    /\ timers > 0 => copied

\* The first two parts of C30, which hold.
C30_CopiedOnlyAfterCopy ==
    /\ ~Truthy(gCode) => (~copied /\ timers = 0 /\ clipboard = NullCode)
    /\ copied => (Truthy(gCode) /\ clipboard = gCode /\ timers > 0)

\* The reset timers are macrotasks of the event loop: a pending one fires.
CopyFairSpec == Spec /\ WF_vars(CopiedTimeout)

\* The last part of C30: copied eventually returns to false.
C30_EventualReset == copied ~> ~copied
====
